---- MODULE Spec2Model ----
(***************************************************************************)
(* Model of stockout.py: the (s,S) single-product inventory simulation.    *)
(*                                                                         *)
(* Simulated time is counted in ticks of half a time unit, so that the     *)
(* review period (1.0) is 2 ticks and the delivery lag range (0.50, 1.00)  *)
(* is 1..2 ticks.  The areas are therefore in level*ticks.                 *)
(*                                                                         *)
(* The event queue is the queue of simpy.Environment: entries              *)
(* (time, priority, eid, event), popped smallest first.  A step pops one   *)
(* event, sets the clock to its time and runs the generator it resumes up  *)
(* to that generator's next yield.                                         *)
(*   env.process(g)   schedules an Initialize event, priority URGENT, at   *)
(*                    the current time; g starts when it is popped         *)
(*   env.timeout(d)   schedules a Timeout event, priority NORMAL, at       *)
(*                    now + d; the yielding generator resumes when popped  *)
(*   env.run(until=t) schedules a stop event, priority URGENT, at t; run   *)
(*                    returns when it is popped                            *)
(***************************************************************************)
EXTENDS Integers, Sequences, FiniteSets, TLC

\* ---------------------------------------------------------------- bounds
\* the time env.run runs until, in ticks (120 time units in the program)
HorizonTicks == 4
\* initial_inventory_level (60 in the program)
InitialLevel == 3
\* number_of_demand_sizes (4 in the program)
NumberOfDemandSizes == 2
\* largest interdemand time drawn, in ticks, besides "after the horizon"
MaxIat == 3

\* ------------------------------------------------------ program constants
\* yield env.timeout(1): the review period, 1.0 time unit = 2 ticks
ReviewPeriod == 2
\* delivery_lag_range = (0.50, 1.00), in ticks.  numpy.random.uniform draws
\* from [low, high) and may return high through floating-point rounding.
delivery_lag_range == <<1, 2>>
\* parameters["K"], parameters["i"]
setup_cost == 32
incremental_cost == 3
\* the priorities simpy gives to Initialize / stop events and to Timeouts
URGENT == 0
NORMAL == 1

\* the s and the S values of the policy table ([20, 40, 60] and
\* [40, 60, 80, 100] in the program, where (60, 60) has s = S)
MinimumValues == <<2, 4, 5>>
TargetValues == <<5>>

\* itertools.product(s values, S values): the s value varies slowest
PolicyCandidates ==
    [k \in 1..(Len(MinimumValues) * Len(TargetValues)) |->
        [minimum |-> MinimumValues[((k - 1) \div Len(TargetValues)) + 1],
         target |-> TargetValues[((k - 1) % Len(TargetValues)) + 1]]]

\* the condition of the comprehension: if s < S
PolicyKeptAlways(p) == TRUE

PolicyKept(p) == p.minimum < p.target

\* policies = [dict(minimum=s, target=S) for s, S in product if s < S]
policies == SelectSeq(PolicyCandidates, PolicyKept)

\* sizes = [i + 1 for i in range(number_of_demand_sizes)]; every size has a
\* positive probability
sizes == 1..NumberOfDemandSizes

\* numpy.random.exponential(mean_interdemand_time): a positive time; the
\* value HorizonTicks + 1 stands for every draw that falls after the horizon
InterdemandTimes == (1..MaxIat) \cup {HorizonTicks + 1}

\* numpy.random.uniform(*lag_range)
Lags == delivery_lag_range[1]..delivery_lag_range[2]

VARIABLES
    now,         \* env.now
    queue,       \* env._queue: the set of scheduled events
    eid,         \* env._eid: the next event id
    level,       \* Inventory.level
    lastEvent,   \* Inventory._lastEvent
    openOrder,   \* Inventory._openOrder
    db,          \* the db dict of the run
    pc,          \* position of the main program: running, reported, done
    policyIdx,   \* index of the policy of the current run
    hist,        \* history: the level after each mutation, with its time
    reviews,     \* history: the level checks of evaluation_generator, each
                 \* with the level and the flag it saw (h: length of hist)
    placed,      \* history: the orders placed (open order set, cost charged)
    puts,        \* history: the deliveries (put of a reorder)
    resumed,     \* history: the timeouts popped, in the order popped
    draws,       \* the number of variates drawn from numpy.random since the
                 \* seed was set
    demands,     \* history: the size and interdemand time drawn by each
                 \* pass of demand_generator, with their places in the stream
    gets         \* history: the demands applied (get of demand_generator)

vars == <<now, queue, eid, level, lastEvent, openOrder, db, pc, policyIdx,
          hist, reviews, placed, puts, resumed, draws, demands, gets>>

policy == policies[policyIdx]

\* ------------------------------------------------------------ event queue
Event(time, priority, id, kind, proc, size, lag, at) ==
    [time |-> time, priority |-> priority, eid |-> id, kind |-> kind,
     proc |-> proc, size |-> size, lag |-> lag, at |-> at]

\* heap order of env._queue: (time, priority, eid)
EarlierFifoOnly(e, f) ==
    \/ e.time < f.time
    \/ e.time = f.time /\ e.eid < f.eid

EarlierLifo(e, f) ==
    \/ e.time < f.time
    \/ e.time = f.time /\ e.priority < f.priority
    \/ e.time = f.time /\ e.priority = f.priority /\ e.eid > f.eid

Earlier(e, f) ==
    \/ e.time < f.time
    \/ e.time = f.time /\ e.priority < f.priority
    \/ e.time = f.time /\ e.priority = f.priority /\ e.eid < f.eid

\* heappop(env._queue)
NextEvent(q) == CHOOSE e \in q : \A f \in q \ {e} : Earlier(e, f)

\* the stop event of env.run(until=120)
UntilEventEarly(id) ==
    Event(HorizonTicks - 1, URGENT, id, "Until", "run", 0, 0, 0)

UntilEventLate(id) ==
    Event(HorizonTicks + 1, URGENT, id, "Until", "run", 0, 0, 0)

UntilEvent(id) ==
    Event(HorizonTicks, URGENT, id, "Until", "run", 0, 0, 0)

\* the queue of a new run: env.process(demand_generator(...)),
\* env.process(evaluation_generator(...)), env.run(until=120)
StartQueue ==
    {Event(0, URGENT, 0, "Initialize", "demand_generator", 0, 0, 0),
     Event(0, URGENT, 1, "Initialize", "evaluation_generator", 0, 0, 0),
     UntilEvent(2)}

\* db = dict(last_event=float(), total_ordering_cost=float(), ...)
StartDb ==
    [last_event |-> 0, total_ordering_cost |-> 0,
     area_holding |-> 0, area_shortage |-> 0]

StartHist == <<[time |-> 0, level |-> InitialLevel]>>

Init ==
    /\ policyIdx = 1
    /\ now = 0
    /\ queue = StartQueue
    /\ eid = 3
    /\ level = InitialLevel
    /\ lastEvent = 0
    /\ openOrder = FALSE
    /\ db = StartDb
    /\ pc = "running"
    /\ hist = StartHist
    /\ reviews = <<>>
    /\ placed = <<>>
    /\ puts = <<>>
    /\ resumed = <<>>
    /\ draws = 0
    /\ demands = <<>>
    /\ gets = <<>>

\* -------------------------------------------------------------- Inventory
\* Inventory.update_time_avg_stats, as the new value of db: lvl is
\* self.level when it is called, last is self._lastEvent, t is env.now
update_time_avg_stats_added(d, lvl, last, t) ==
    IF lvl < 0
    THEN [d EXCEPT !.area_shortage = d.area_shortage + lvl * (t - last)]
    ELSE IF lvl > 0
    THEN [d EXCEPT !.area_holding = d.area_holding + lvl * (t - last)]
    ELSE d

update_time_avg_stats(d, lvl, last, t) ==
    IF lvl < 0
    THEN [d EXCEPT !.area_shortage = d.area_shortage - lvl * (t - last)]
    ELSE IF lvl > 0
    THEN [d EXCEPT !.area_holding = d.area_holding + lvl * (t - last)]
    ELSE d

\* the last statement of Inventory.update_time_avg_stats:
\* self._lastEvent = self._env.now
lastEventKept(last, t) == last

lastEventAfter(last, t) == t

\* Inventory.get at time t: the level is changed, then the statistics are
\* updated with the changed level
get(size, t) ==
    /\ level' = level - size
    /\ db' = update_time_avg_stats(db, level - size, lastEvent, t)
    /\ lastEvent' = lastEventAfter(lastEvent, t)
    /\ hist' = Append(hist, [time |-> t, level |-> level - size])

\* Inventory.put at time t
put_level_kept(size, t) ==
    /\ level' = level
    /\ db' = update_time_avg_stats(db, level, lastEvent, t)
    /\ lastEvent' = lastEventAfter(lastEvent, t)
    /\ hist' = Append(hist, [time |-> t, level |-> level])

put(size, t) ==
    /\ level' = level + size
    /\ db' = update_time_avg_stats(db, level + size, lastEvent, t)
    /\ lastEvent' = lastEventAfter(lastEvent, t)
    /\ hist' = Append(hist, [time |-> t, level |-> level + size])

\* the test of Inventory.reorder: if not self._openOrder
OrderGateNone == TRUE

OrderGate == ~openOrder

\* the cost of Inventory.reorder: setup_cost + incremental_cost * order.size
OrderingCostFlat(size) == setup_cost + incremental_cost

OrderingCost(size) == setup_cost + incremental_cost * size

\* the size of the ReOrder of evaluation_generator
OrderSizeUpTo(target) == target

OrderSize(target) == target - level

\* ------------------------------------------------------------- the steps
\* the event the next step pops
Popped(kind, proc) ==
    /\ pc = "running"
    /\ queue # {}
    /\ NextEvent(queue).kind = kind
    /\ NextEvent(queue).proc = proc

\* one pass of the loop of demand_generator from its top to its yield:
\* draw the size and the interdemand time, yield env.timeout(iat)
DemandCycle(e) ==
    /\ \E size \in sizes, iat \in InterdemandTimes :
          /\ queue' = (queue \ {e}) \cup
                 {Event(e.time + iat, NORMAL, eid, "Timeout",
                        "demand_generator", size, 0, 0)}
          /\ demands' = Append(demands,
                 [size |-> size, iat |-> iat, from |-> e.time,
                  sizeDraw |-> draws + 1, iatDraw |-> draws + 2])
    /\ eid' = eid + 1
    /\ draws' = draws + 2

\* the local variable demand of demand_generator, kept across the yield
DemandSizeUnit(e) == 1

DemandSize(e) == e.size

\* demand_generator starts
demand_generator_init ==
    /\ Popped("Initialize", "demand_generator")
    /\ LET e == NextEvent(queue) IN
        /\ now' = e.time
        /\ DemandCycle(e)
    /\ UNCHANGED <<level, lastEvent, openOrder, db, pc, policyIdx,
                   hist, reviews, placed, puts, resumed, gets>>

\* demand_generator resumes after its timeout: inventory.get(demand.size),
\* then the next pass of the loop
demand_generator_resume ==
    /\ Popped("Timeout", "demand_generator")
    /\ LET e == NextEvent(queue) IN
        /\ now' = e.time
        /\ get(DemandSize(e), e.time)
        /\ gets' = Append(gets, [size |-> DemandSize(e), at |-> e.time])
        /\ DemandCycle(e)
        /\ resumed' = Append(resumed, [time |-> e.time, eid |-> e.eid])
    /\ UNCHANGED <<openOrder, pc, policyIdx, reviews, placed, puts>>

\* one pass of the loop of evaluation_generator from its top to its yield:
\* the level check, the ReOrder and env.process when it is below the
\* minimum, yield env.timeout(1)
EvaluationCycle(e) ==
    /\ reviews' = Append(reviews,
           [at |-> e.time, level |-> level, open |-> openOrder,
            h |-> Len(hist),
            sampled |-> IF level < policy.minimum THEN 1 ELSE 0])
    /\ draws' = draws + (IF level < policy.minimum THEN 1 ELSE 0)
    /\ IF level < policy.minimum
       THEN /\ \E lag \in Lags :
                 queue' = (queue \ {e}) \cup
                     {Event(e.time, URGENT, eid, "Initialize", "reorder",
                            OrderSize(policy.target), lag, e.time),
                      Event(e.time + ReviewPeriod, NORMAL, eid + 1, "Timeout",
                            "evaluation_generator", 0, 0, 0)}
            /\ eid' = eid + 2
       ELSE /\ queue' = (queue \ {e}) \cup
                     {Event(e.time + ReviewPeriod, NORMAL, eid, "Timeout",
                            "evaluation_generator", 0, 0, 0)}
            /\ eid' = eid + 1

\* evaluation_generator suspending before its first check
EvaluationYieldFirst ==
    /\ Popped("Initialize", "evaluation_generator")
    /\ LET e == NextEvent(queue) IN
        /\ now' = e.time
        /\ queue' = (queue \ {e}) \cup
               {Event(e.time + ReviewPeriod, NORMAL, eid, "Timeout",
                      "evaluation_generator", 0, 0, 0)}
        /\ eid' = eid + 1
    /\ UNCHANGED <<level, lastEvent, openOrder, db, pc, policyIdx,
                   hist, reviews, placed, puts, resumed, draws, demands, gets>>

\* evaluation_generator starts
evaluation_generator_init ==
    /\ Popped("Initialize", "evaluation_generator")
    /\ LET e == NextEvent(queue) IN
        /\ now' = e.time
        /\ EvaluationCycle(e)
    /\ UNCHANGED <<level, lastEvent, openOrder, db, pc, policyIdx,
                   hist, placed, puts, resumed, demands, gets>>

\* evaluation_generator resumes after its timeout
evaluation_generator_resume ==
    /\ Popped("Timeout", "evaluation_generator")
    /\ LET e == NextEvent(queue) IN
        /\ now' = e.time
        /\ EvaluationCycle(e)
        /\ resumed' = Append(resumed, [time |-> e.time, eid |-> e.eid])
    /\ UNCHANGED <<level, lastEvent, openOrder, db, pc, policyIdx,
                   hist, placed, puts, demands, gets>>

\* Inventory.reorder starts: with no open order it sets the flag, charges
\* the ordering cost and yields env.timeout(order.lag); with an open order
\* it ends at once
reorder_init ==
    /\ Popped("Initialize", "reorder")
    /\ LET e == NextEvent(queue) IN
        /\ now' = e.time
        /\ IF OrderGate
           THEN /\ openOrder' = TRUE
                /\ db' = [db EXCEPT !.total_ordering_cost =
                                        @ + OrderingCost(e.size)]
                /\ queue' = (queue \ {e}) \cup
                       {Event(e.time + e.lag, NORMAL, eid, "Timeout", "reorder",
                              e.size, e.lag, e.time)}
                /\ eid' = eid + 1
                /\ placed' = Append(placed,
                       [size |-> e.size, at |-> e.time, lag |-> e.lag,
                        level |-> level, review |-> e.at, eid |-> eid,
                        h |-> Len(hist)])
           ELSE /\ queue' = queue \ {e}
                /\ UNCHANGED <<openOrder, db, eid, placed>>
    /\ UNCHANGED <<level, lastEvent, pc, policyIdx, hist, reviews, puts,
                   resumed, draws, demands, gets>>

\* the delivery without the flag being cleared
reorder_resume_flag_kept ==
    /\ Popped("Timeout", "reorder")
    /\ LET e == NextEvent(queue) IN
        /\ now' = e.time
        /\ put(e.size, e.time)
        /\ queue' = queue \ {e}
        /\ puts' = Append(puts, [size |-> e.size, at |-> e.time, eid |-> e.eid,
                                 level |-> level + e.size,
                                 h |-> Len(hist) + 1])
        /\ resumed' = Append(resumed, [time |-> e.time, eid |-> e.eid])
    /\ UNCHANGED <<eid, pc, policyIdx, reviews, placed, draws, demands, gets,
                   openOrder>>

\* Inventory.reorder resumes after the lag: self.put(order.size), the flag
\* is cleared
reorder_resume ==
    /\ Popped("Timeout", "reorder")
    /\ LET e == NextEvent(queue) IN
        /\ now' = e.time
        /\ put(e.size, e.time)
        /\ openOrder' = FALSE
        /\ queue' = queue \ {e}
        /\ puts' = Append(puts, [size |-> e.size, at |-> e.time, eid |-> e.eid,
                                 level |-> level + e.size,
                                 h |-> Len(hist) + 1])
        /\ resumed' = Append(resumed, [time |-> e.time, eid |-> e.eid])
    /\ UNCHANGED <<eid, pc, policyIdx, reviews, placed, draws, demands, gets>>

\* the stop event is popped: env.run returns and report reads db
run_until ==
    /\ Popped("Until", "run")
    /\ now' = NextEvent(queue).time
    /\ queue' = queue \ {NextEvent(queue)}
    /\ pc' = "reported"
    /\ UNCHANGED <<eid, level, lastEvent, openOrder, db, policyIdx,
                   hist, reviews, placed, puts, resumed, draws, demands, gets>>

\* the next run with the db of the run before
next_policy_shared_db ==
    /\ pc = "reported"
    /\ policyIdx < Len(policies)
    /\ policyIdx' = policyIdx + 1
    /\ now' = 0
    /\ queue' = StartQueue
    /\ eid' = 3
    /\ level' = InitialLevel
    /\ lastEvent' = 0
    /\ openOrder' = FALSE
    /\ pc' = "running"
    /\ hist' = StartHist
    /\ reviews' = <<>>
    /\ placed' = <<>>
    /\ puts' = <<>>
    /\ resumed' = <<>>
    /\ demands' = <<>>
    /\ gets' = <<>>
    /\ UNCHANGED <<db, draws>>

\* for policy in policies: the next run, with a new env, db and inventory;
\* numpy.random is seeded once, before the loop
next_policy ==
    /\ pc = "reported"
    /\ policyIdx < Len(policies)
    /\ policyIdx' = policyIdx + 1
    /\ now' = 0
    /\ queue' = StartQueue
    /\ eid' = 3
    /\ level' = InitialLevel
    /\ lastEvent' = 0
    /\ openOrder' = FALSE
    /\ db' = StartDb
    /\ pc' = "running"
    /\ hist' = StartHist
    /\ reviews' = <<>>
    /\ placed' = <<>>
    /\ puts' = <<>>
    /\ resumed' = <<>>
    /\ demands' = <<>>
    /\ gets' = <<>>
    /\ UNCHANGED draws

\* the loop over the policies ends
finish ==
    /\ pc = "reported"
    /\ policyIdx = Len(policies)
    /\ pc' = "done"
    /\ UNCHANGED <<now, queue, eid, level, lastEvent, openOrder, db,
                   policyIdx, hist, reviews, placed, puts, resumed, draws,
                   demands, gets>>

Next ==
    \/ demand_generator_init
    \/ demand_generator_resume
    \/ evaluation_generator_init
    \/ evaluation_generator_resume
    \/ reorder_init
    \/ reorder_resume
    \/ run_until
    \/ next_policy
    \/ finish

Spec == Init /\ [][Next]_vars

\* ------------------------------------------------------------- properties
Pos(x) == IF x > 0 THEN x ELSE 0

\* where segment k of a level history ends
SegmentEnd(h, k, upTo) == IF k < Len(h) THEN h[k + 1].time ELSE upTo

\* the integral of max(level, 0) over a level history, from segment k on
RECURSIVE HoldingIntegral(_, _, _)
HoldingIntegral(h, k, upTo) ==
    IF k > Len(h) THEN 0
    ELSE Pos(h[k].level) * (SegmentEnd(h, k, upTo) - h[k].time)
         + HoldingIntegral(h, k + 1, upTo)

\* the integral of max(-level, 0) over a level history, from segment k on
RECURSIVE ShortageIntegral(_, _, _)
ShortageIntegral(h, k, upTo) ==
    IF k > Len(h) THEN 0
    ELSE Pos(-h[k].level) * (SegmentEnd(h, k, upTo) - h[k].time)
         + ShortageIntegral(h, k + 1, upTo)

\* the sum of K + i*size over the first k orders placed
RECURSIVE PlacedCost(_)
PlacedCost(k) ==
    IF k = 0 THEN 0
    ELSE setup_cost + incremental_cost * placed[k].size + PlacedCost(k - 1)

InFlight == Len(placed) - Len(puts)

PendingDeliveries == {e \in queue : e.kind = "Timeout" /\ e.proc = "reorder"}

PendingReorderStarts ==
    {e \in queue : e.kind = "Initialize" /\ e.proc = "reorder"}

\* the reviews that found the level below the minimum with no open order
OrderingReviews ==
    {k \in DOMAIN reviews :
        reviews[k].level < policy.minimum /\ ~reviews[k].open}

\* the reviews that called reorder while an order was open
GatedReviews ==
    {k \in DOMAIN reviews :
        reviews[k].level < policy.minimum /\ reviews[k].open}

\* C1: area_holding and area_shortage are the exact integrals of
\* max(level,0) and max(-level,0) of the level history from the start of
\* the run up to last_event_time, every interval charged with the level
\* that held during it.
C1_AreasAreExactIntegrals ==
    /\ db.area_holding = HoldingIntegral(hist, 1, lastEvent)
    /\ db.area_shortage = ShortageIntegral(hist, 1, lastEvent)

\* C2: when a run has ended, the reported areas cover the whole of
\* [0, horizon]; with no demand before the horizon and an initial level not
\* below s the run reports area_holding = L * horizon, area_shortage = 0 and
\* total_ordering_cost = 0.
C2_ReportedAreasCoverHorizon ==
    pc # "running" =>
        /\ db.area_holding = HoldingIntegral(hist, 1, HorizonTicks)
        /\ db.area_shortage = ShortageIntegral(hist, 1, HorizonTicks)
        /\ (Len(hist) = 1 /\ InitialLevel >= policy.minimum) =>
              /\ db.area_holding = InitialLevel * HorizonTicks
              /\ db.area_shortage = 0
              /\ db.total_ordering_cost = 0

\* C3: at most one order is in flight in every state; a reorder called while
\* an order is open places nothing, so the open flag, the number of orders
\* placed and not delivered, and the number of pending deliveries agree and
\* never exceed one.
C3_AtMostOneOrderInFlight ==
    /\ InFlight \in {0, 1}
    /\ openOrder <=> InFlight = 1
    /\ Cardinality(PendingDeliveries) = InFlight
    /\ Len(placed) <= Cardinality(OrderingReviews)

\* a reorder was called while an order was open, and has ended
C3_Witness ==
    /\ GatedReviews # {}
    /\ PendingReorderStarts = {}
    /\ Len(placed) = 1

\* C4: total_ordering_cost is the sum of K + i*size over the orders placed
\* so far, an order in flight included, and each order is charged at the
\* instant of the review that placed it.
C4_OrderingCostChargedAtPlacement ==
    /\ db.total_ordering_cost = PlacedCost(Len(placed))
    /\ \A k \in DOMAIN placed : placed[k].at = placed[k].review

\* an order in flight has been charged
C4_Witness ==
    /\ openOrder
    /\ db.total_ordering_cost = setup_cost + incremental_cost * placed[1].size
    /\ placed[1].at > 0

C6_TimeThenFifo ==
    /\ \A i, j \in DOMAIN resumed :
          i < j =>
              \/ resumed[i].time < resumed[j].time
              \/ /\ resumed[i].time = resumed[j].time
                 /\ resumed[i].eid < resumed[j].eid
    /\ \A i \in DOMAIN resumed : resumed[i].time <= now
    /\ \A e \in queue : pc = "running" => e.time >= now

\* three wake-ups due at the same time have been resumed
C6_Witness ==
    \E i \in DOMAIN resumed :
        /\ i + 2 \in DOMAIN resumed
        /\ resumed[i].time = resumed[i + 2].time

\* C7 as stated: run(until) resumes every wake-up due at or before until.
C7_ResumesDueAtUntil ==
    pc # "running" =>
        \A e \in queue : e.kind = "Timeout" => e.time > HorizonTicks

\* C7: run(until) resumes every wake-up due before until and none due at
\* until or later; the clock never exceeds until and is until when run
\* returns.
C7_ResumesDueBeforeUntil ==
    /\ \A i \in DOMAIN resumed : resumed[i].time < HorizonTicks
    /\ now <= HorizonTicks
    /\ pc # "running" =>
          /\ now = HorizonTicks
          /\ \A e \in queue : e.time >= HorizonTicks

\* the run has returned with a delivery and the review tick due at until
C7_Witness ==
    /\ pc = "reported"
    /\ \E e \in PendingDeliveries : e.time = HorizonTicks
    /\ \E e \in queue :
          e.proc = "evaluation_generator" /\ e.time = HorizonTicks

\* C8 as stated: the k-th level check happens at time k (the first at 1).
C8_FirstCheckAtOne ==
    \A k \in DOMAIN reviews : reviews[k].at = k * ReviewPeriod

\* C8: the review process checks the level and only then suspends for one
\* review period: the checks happen exactly at times 0, 1, 2, ..., and an
\* initial level below the reorder point places an order at time 0.
C8_ChecksFromTimeZero ==
    /\ \A k \in DOMAIN reviews : reviews[k].at = (k - 1) * ReviewPeriod
    /\ \A e \in queue :
          e.proc = "evaluation_generator" =>
              e.time = Len(reviews) * ReviewPeriod
    /\ (InitialLevel < policy.minimum /\ now > 0) =>
          /\ Len(placed) >= 1
          /\ placed[1].at = 0

\* an order has been placed at time 0
C8_Witness ==
    /\ placed # <<>>
    /\ placed[1].at = 0
    /\ placed[1].size = policy.target - InitialLevel

\* C9: the size of a placed order is S minus the level at the moment it is
\* placed: the level is not changed between the check that computes the
\* size and the step that sets the open flag and charges the cost.
C9_SizeFromLevelAtPlacement ==
    \A k \in DOMAIN placed :
        /\ placed[k].size = policy.target - placed[k].level
        /\ \E r \in DOMAIN reviews :
              /\ reviews[r].at = placed[k].at
              /\ reviews[r].h = placed[k].h
              /\ reviews[r].level = placed[k].level

\* an order was placed at an instant at which a demand was due as well
C9_Witness ==
    \E k \in DOMAIN placed :
        /\ placed[k].at > 0
        /\ placed[k].h < Len(hist)
        /\ hist[placed[k].h + 1].time = placed[k].at
        /\ hist[placed[k].h + 1].level < placed[k].level

\* C10: an interval during which the level is 0 adds to neither area,
\* whatever ends it.
C10_ZeroLevelChargesNothing ==
    [][(pc = "running" /\ pc' = "running" /\ level = 0) =>
          /\ db'.area_holding = db.area_holding
          /\ db'.area_shortage = db.area_shortage]_vars

\* C11: the accrual is idempotent at a fixed time: a second call of
\* update_time_avg_stats at the same time, with the level unchanged, leaves
\* area_holding, area_shortage and last_event_time as the first call left
\* them.
C11_AccrualIdempotent ==
    \A t \in lastEvent..HorizonTicks :
        LET d1 == update_time_avg_stats(db, level, lastEvent, t)
            l1 == lastEventAfter(lastEvent, t)
            d2 == update_time_avg_stats(d1, level, l1, t)
            l2 == lastEventAfter(l1, t)
        IN  /\ d2 = d1
            /\ l2 = l1

\* a state in which the first of two calls at the current time adds to an
\* area
C11_Witness ==
    /\ level # 0
    /\ now > lastEvent
    /\ lastEvent > 0
    /\ update_time_avg_stats(db, level, lastEvent, now) # db

\* C12: area_holding, area_shortage and total_ordering_cost are >= 0 in
\* every state and never decrease within a run; last_event_time never
\* exceeds the current time and every placed order has a positive size.
C12_AccumulatorsNeverDecrease ==
    [][/\ db'.area_holding >= 0
       /\ db'.area_shortage >= 0
       /\ db'.total_ordering_cost >= 0
       /\ lastEvent' <= now'
       /\ \A k \in DOMAIN placed' : placed'[k].size > 0
       /\ policyIdx' = policyIdx =>
             /\ db'.area_holding >= db.area_holding
             /\ db'.area_shortage >= db.area_shortage
             /\ db'.total_ordering_cost >= db.total_ordering_cost]_vars

\* all three accumulators have grown
C12_Witness ==
    /\ db.area_holding > 0
    /\ db.area_shortage > 0
    /\ db.total_ordering_cost > 0
    /\ level < 0

PendingWakeUps == {e \in queue : e.kind = "Timeout"}

\* C13 as stated: a review made while an order is open draws no lead time.
C13_GatedReorderDrawsNothing ==
    [][(Len(reviews') > Len(reviews) /\ openOrder) => draws' = draws]_vars

\* C13: a reorder attempt made while an order is open leaves level, the
\* areas, the ordering cost, the open flag and the pending wake-ups
\* unchanged; the review that makes the attempt has drawn a lead time all
\* the same, because the ReOrder is built, and its lag sampled, before
\* reorder tests the flag.
C13_GatedReorderChangesOnlyStream ==
    [][/\ (pc = "running" /\ PendingReorderStarts # {} /\ openOrder) =>
             /\ level' = level
             /\ db' = db
             /\ lastEvent' = lastEvent
             /\ openOrder' = openOrder
             /\ placed' = placed
             /\ draws' = draws
             /\ queue' = queue \ PendingReorderStarts
             /\ {e \in queue' : e.kind = "Timeout"} = PendingWakeUps
       /\ (Len(reviews') > Len(reviews) /\ openOrder
               /\ level < policy.minimum) =>
             /\ draws' = draws + 1
             /\ level' = level
             /\ db' = db
             /\ lastEvent' = lastEvent
             /\ openOrder' = openOrder]_vars

\* a reorder attempt was made while an order was open; the order has since
\* been delivered and it is the only one placed
C13_Witness ==
    /\ GatedReviews # {}
    /\ PendingReorderStarts = {}
    /\ Len(placed) = 1
    /\ Len(puts) = 1
    /\ Cardinality({k \in DOMAIN reviews : reviews[k].sampled = 1}) = 2

InvalidCandidates ==
    {k \in DOMAIN PolicyCandidates :
        PolicyCandidates[k].minimum >= PolicyCandidates[k].target}

\* C14 as stated: a pair with s >= S ends the program with an error, so the
\* program does not complete when the table holds one.
C14_InvalidPolicyRejected ==
    pc = "done" => InvalidCandidates = {}

\* C14: a pair with s >= S is dropped, without any error, when the policy
\* list is built: no run is started, and no inventory state created or
\* changed, for a policy with s >= S, and the other policies are all run.
C14_InvalidPolicyNeverRun ==
    /\ policy.minimum < policy.target
    /\ \A k \in InvalidCandidates : policy # PolicyCandidates[k]
    /\ policyIdx \in 1..(Len(PolicyCandidates) - Cardinality(InvalidCandidates))
    /\ pc = "done" =>
          policyIdx = Len(PolicyCandidates) - Cardinality(InvalidCandidates)

\* the program has completed with a pair s >= S in the table
C14_Witness ==
    /\ pc = "done"
    /\ InvalidCandidates # {}
    /\ policyIdx = 2

\* the variates drawn in the current run
RunDraws ==
    2 * Len(demands)
    + Cardinality({k \in DOMAIN reviews : reviews[k].level < policy.minimum})

\* C15: every run starts from a fresh state: clock 0, level at the initial
\* level, zero areas and ordering cost, no open order and only the run's own
\* first events pending; the position of the random stream alone is carried
\* from run to run and never reset.
C15_FreshRunSharedStream ==
    /\ eid = 3 =>
          /\ now = 0
          /\ level = InitialLevel
          /\ lastEvent = 0
          /\ ~openOrder
          /\ db = StartDb
          /\ queue = StartQueue
          /\ hist = StartHist
          /\ reviews = <<>> /\ placed = <<>> /\ puts = <<>>
    /\ policyIdx = 1 => draws = RunDraws
    /\ policyIdx > 1 => draws - RunDraws >= 2 * (policyIdx - 1)
    /\ \A e \in queue : e.eid < eid /\ (pc = "running" => e.time >= now)

\* the second run starts, the stream advanced by the first run
C15_Witness ==
    /\ policyIdx = 2
    /\ eid = 3
    /\ draws > 2

\* the sum of the first k interdemand times drawn
RECURSIVE SumIat(_)
SumIat(k) == IF k = 0 THEN 0 ELSE demands[k].iat + SumIat(k - 1)

\* the sum of the sizes of the first k demands applied
RECURSIVE SumGets(_)
SumGets(k) == IF k = 0 THEN 0 ELSE gets[k].size + SumGets(k - 1)

\* the sum of the sizes of the first k orders delivered
RECURSIVE SumPuts(_)
SumPuts(k) == IF k = 0 THEN 0 ELSE puts[k].size + SumPuts(k - 1)

PendingDemands ==
    {e \in queue : e.kind = "Timeout" /\ e.proc = "demand_generator"}

\* C16: each demand cycle draws the size and then the interdemand time
\* before it suspends, suspends for that time, and on resumption calls get
\* with the size drawn at the start of the cycle: the k-th get happens at
\* the sum of the first k times drawn and removes the k-th size drawn.
C16_DemandCycleOrder ==
    /\ \A k \in DOMAIN demands :
          /\ demands[k].iatDraw = demands[k].sizeDraw + 1
          /\ demands[k].from = SumIat(k - 1)
    /\ \A k \in DOMAIN gets :
          /\ k \in DOMAIN demands
          /\ gets[k].size = demands[k].size
          /\ gets[k].at = SumIat(k)
    /\ (pc = "running" /\ demands # <<>>) =>
          /\ Len(demands) = Len(gets) + 1
          /\ \A e \in PendingDemands :
                /\ e.time = SumIat(Len(demands))
                /\ e.size = demands[Len(demands)].size
          /\ Cardinality(PendingDemands) = 1

\* two demands of different sizes have been applied
C16_Witness ==
    /\ Len(gets) >= 2
    /\ gets[1].size = 2
    /\ gets[2].size = 1
    /\ gets[2].at > gets[1].at + 1

\* C17: the level is the initial level, less the demands applied, plus the
\* orders delivered; an order in flight is not counted.
C17_StockConservation ==
    level = InitialLevel - SumGets(Len(gets)) + SumPuts(Len(puts))

\* demands applied, an order delivered and another in flight
C17_Witness ==
    /\ openOrder
    /\ Len(puts) = 1
    /\ Len(placed) = 2
    /\ Len(gets) >= 1

\* C18: the level never exceeds the larger of the initial level and S.
C18_LevelAtMostTarget ==
    level <= (IF InitialLevel > policy.target THEN InitialLevel
              ELSE policy.target)

\* a delivery has brought the level up to S, above the initial level
C18_Witness ==
    /\ puts # <<>>
    /\ gets # <<>>
    /\ level = policy.target
    /\ policy.target > InitialLevel
    /\ hist[Len(hist)].level > hist[Len(hist) - 1].level

\* the orders placed before time t all have a lag shorter than the review
\* period
ShortLagsBefore(t) ==
    \A j \in DOMAIN placed :
        placed[j].at < t => placed[j].lag < ReviewPeriod

\* C19: with every lead time shorter than the review period no order is
\* open at a review instant, so every review that finds level < s places
\* an order.
C19_NoOpenOrderAtReview ==
    \A k \in DOMAIN reviews :
        ShortLagsBefore(reviews[k].at) =>
            /\ ~reviews[k].open
            /\ reviews[k].level < policy.minimum =>
                  \/ \E j \in DOMAIN placed : placed[j].at = reviews[k].at
                  \/ \E e \in PendingReorderStarts : e.time = reviews[k].at

\* a review placed a second order after the first, of a short lag, had
\* been delivered
C19_Witness ==
    /\ Len(placed) = 2
    /\ placed[1].lag < ReviewPeriod
    /\ ShortLagsBefore(placed[2].at)
    /\ GatedReviews = {}

\* C20 as stated: when env.run returns no order is in flight.
C20_NoOrderInFlightAtReturn ==
    pc # "running" => (~openOrder /\ Len(puts) = Len(placed))

\* C20: when env.run returns, the orders delivered are exactly those whose
\* delivery was due before the horizon; an order due at the horizon or later
\* is still in flight, its cost charged and its stock not received.
C20_DeliveredIffDueBeforeHorizon ==
    pc # "running" =>
        /\ \A k \in DOMAIN placed :
              k <= Len(puts) <=> placed[k].at + placed[k].lag < HorizonTicks
        /\ openOrder <=>
              (placed # <<>> /\
               placed[Len(placed)].at + placed[Len(placed)].lag >= HorizonTicks)
        /\ db.total_ordering_cost = PlacedCost(Len(placed))

\* env.run has returned with an order in flight
C20_Witness ==
    /\ pc = "reported"
    /\ openOrder
    /\ Len(placed) = Len(puts) + 1
    /\ db.total_ordering_cost > 0

====
